---- MODULE Spec2Model ----
(***************************************************************************)
(* Model of cloudinit/config/cc_resizefs_vyos.py: the resize-decision and  *)
(* dispatch engine (handle, maybe_get_writable_device_path,                *)
(* can_skip_resize, the _resize_* builders and do_resize).                 *)
(*                                                                         *)
(* Encodings.                                                              *)
(*  - A path string s is the tuple s.split('/'):  "/dev/root" is           *)
(*    <<"", "dev", "root">>, "tank/data" is <<"tank", "data">>, "/" is     *)
(*    <<"", "">>.  split/join are inverse, so this loses nothing, and      *)
(*    startswith('/dev/'), lstrip('/'), '/dev/' + s and split('/')[0]      *)
(*    are computed on it exactly.                                          *)
(*  - A filesystem type string is the tuple of its characters.             *)
(*  - Python's None is the empty tuple (no string splits to it).           *)
(*  - A command is the tuple of its arguments, each a path-encoded string. *)
(***************************************************************************)
EXTENDS Naturals, Sequences, FiniteSets, TLC

VARIABLES
    pc,             \* position of handle
    resize_enabled, \* handle's local resize_enabled
    resize_what,    \* handle's local resize_what (the list iterated)
    idx,            \* position of the for loop in resize_what (1-based)
    resize_item,    \* loop variable / rebinding at line 252
    result,         \* result of util.get_mount_info
    devpth,         \* local devpth
    fs_type,        \* local fs_type
    mount_point,    \* local mount_point
    resizer,        \* local resizer (name of the builder, or "None")
    resize_cmd,     \* local resize_cmd
    dry,            \* the command can_skip_resize ran in this iteration, with its
                    \* exit code and stderr; None when it ran none
    calls,          \* the calls handle made so far: <<operation, loop position, outcome>>
    fg,             \* the synchronous resize command: "idle" or "running"
    children,       \* forked children: loop position -> state
    raised,         \* exception that left handle ("None" when none did)
    logged,         \* tag of the last message handle logged
    vq,             \* a call of maybe_get_writable_device_path: its arguments
    vr              \* ... and its outcome

vars == <<pc, resize_enabled, resize_what, idx, resize_item, result, devpth,
          fs_type, mount_point, resizer, resize_cmd, dry, calls,
          fg, children, raised, logged, vq, vr>>

hvars == <<pc, resize_enabled, resize_what, idx, resize_item, result, devpth,
           fs_type, mount_point, resizer, resize_cmd, dry, calls,
           fg, children, raised, logged>>

----------------------------------------------------------------------------
(* Bounds *)

\* longest resizefs_list explored
MaxTargets == 2

----------------------------------------------------------------------------
(* Strings *)

None == <<>>

NOBLOCK == "noblock"

\* str.startswith on character tuples
StartsWith(s, p) == Len(s) >= Len(p) /\ SubSeq(s, 1, Len(p)) = p

UpperChars == <<"A","B","C","D","E","F","G","H","I","J","K","L","M",
                "N","O","P","Q","R","S","T","U","V","W","X","Y","Z">>
LowerChars == <<"a","b","c","d","e","f","g","h","i","j","k","l","m",
                "n","o","p","q","r","s","t","u","v","w","x","y","z">>

LowerChar(c) ==
    IF \E i \in 1..26 : UpperChars[i] = c
    THEN LowerChars[CHOOSE i \in 1..26 : UpperChars[i] = c]
    ELSE c

\* str.lower()
Lower(s) == [i \in 1..Len(s) |-> LowerChar(s[i])]

\* s.startswith(d + '/') on split paths, d given as its segments
PathStartsWithDir(p, d) == Len(p) >= Len(d) + 1 /\ SubSeq(p, 1, Len(d)) = d

RECURSIVE LStripSlash(_)
\* s.lstrip('/')
LStripSlash(p) ==
    IF Len(p) > 1 /\ p[1] = "" THEN LStripSlash(Tail(p)) ELSE p

\* '/dev/' + s
DevPrefixed(p) == <<"", "dev">> \o p

\* s.split('/')[0], as a string
FirstSegment(p) == <<p[1]>>

DevRoot     == <<"", "dev", "root">>
Overlayroot == <<"overlayroot">>
RootDir     == <<"", "">>
DevVda1     == <<"", "dev", "vda1">>
DevSdb      == <<"", "dev", "sdb">>
Da0p3       == <<"da0p3">>
GptLabel    == <<"gpt", "rootfs">>
TankData    == <<"tank", "data">>
MntData     == <<"", "mnt", "data">>

----------------------------------------------------------------------------
(* The command builders, lines 71-98 *)

Arg(word) == <<word>>

\* _resize_btrfs; env is <<util.mount_is_read_write(mount_point),
\*                         os.path.isdir(mount_point + '/.snapshots')>>
resize_btrfs(mount_point_, devpth_, env) ==
    IF ~env[1] /\ env[2]
    THEN <<Arg("btrfs"), Arg("filesystem"), Arg("resize"), Arg("max"),
           mount_point_ \o <<".snapshots">> >>
    ELSE <<Arg("btrfs"), Arg("filesystem"), Arg("resize"), Arg("max"),
           mount_point_>>

resize_ext(mount_point_, devpth_) == <<Arg("resize2fs"), devpth_>>

resize_xfs(mount_point_, devpth_) == <<Arg("xfs_growfs"), mount_point_>>

resize_ufs(mount_point_, devpth_) == <<Arg("growfs"), Arg("-y"), mount_point_>>

resize_zfs(mount_point_, devpth_) ==
    <<Arg("zpool"), Arg("online"), Arg("-e"), mount_point_, devpth_>>

\* RESIZE_FS_PREFIXES_CMDS, in the order of the source
RESIZE_FS_PREFIXES_CMDS ==
    << <<  <<"b","t","r","f","s">>, "_resize_btrfs" >>,
       <<  <<"e","x","t">>,         "_resize_ext"   >>,
       <<  <<"x","f","s">>,         "_resize_xfs"   >>,
       <<  <<"u","f","s">>,         "_resize_ufs"   >>,
       <<  <<"z","f","s">>,         "_resize_zfs"   >> >>

Min(S) == CHOOSE n \in S : \A m \in S : n <= m

\* mutant: the dispatch compares the type as given, without lower()
select_resizer_case_sensitive(fs_type_) ==
    LET hits == {i \in DOMAIN RESIZE_FS_PREFIXES_CMDS :
                    StartsWith(fs_type_, RESIZE_FS_PREFIXES_CMDS[i][1])}
    IN  IF hits = {} THEN "None" ELSE RESIZE_FS_PREFIXES_CMDS[Min(hits)][2]

\* handle, lines 268-272: the first prefix of the list that fstype_lc starts
\* with selects the builder; no break means resizer stays None
select_resizer(fs_type_) ==
    LET fstype_lc == Lower(fs_type_)
        hits == {i \in DOMAIN RESIZE_FS_PREFIXES_CMDS :
                    StartsWith(fstype_lc, RESIZE_FS_PREFIXES_CMDS[i][1])}
    IN  IF hits = {} THEN "None" ELSE RESIZE_FS_PREFIXES_CMDS[Min(hits)][2]

\* handle, line 279: resizer(resize_item, devpth)
call_resizer(name, item, devpth_, env) ==
    CASE name = "_resize_btrfs" -> resize_btrfs(item, devpth_, env)
      [] name = "_resize_ext"   -> resize_ext(item, devpth_)
      [] name = "_resize_xfs"   -> resize_xfs(item, devpth_)
      [] name = "_resize_ufs"   -> resize_ufs(item, devpth_)
      [] name = "_resize_zfs"   -> resize_zfs(item, devpth_)

----------------------------------------------------------------------------
(* The precheck, lines 101-141 *)

\* stderr is the tuple of the phrases it is made of
skip_start   == "growfs: requested size"
skip_contain == "is not larger than the current filesystem size"

\* subp.subp raises ProcessExecutionError on a non-zero exit
subp_raises(out) == out.exit_code # 0

\* what the external command can do: its exit code and its stderr
SubpOutcomes ==
    { [exit_code |-> 0, stderr |-> <<>>] } \cup
    { [exit_code |-> 1, stderr |-> e] :
        e \in { <<skip_start, "10G", skip_contain>>,
                <<skip_start, "10G">>,
                <<"growfs: warning", skip_contain>>,
                <<"growfs: we are not running as root">>,
                <<>> } }

\* mutant: either phrase alone is taken for the already-sized message
can_skip_resize_ufs_either_phrase(mount_point_, devpth_, out) ==
    IF subp_raises(out)
    THEN IF (Len(out.stderr) >= 1 /\ out.stderr[1] = skip_start)
            \/ (\E i \in DOMAIN out.stderr : out.stderr[i] = skip_contain)
         THEN [kind |-> "return", value |-> TRUE,
               ran |-> <<Arg("growfs"), Arg("-N"), devpth_>>]
         ELSE [kind |-> "raise", value |-> FALSE,
               ran |-> <<Arg("growfs"), Arg("-N"), devpth_>>]
    ELSE [kind |-> "return", value |-> FALSE,
          ran |-> <<Arg("growfs"), Arg("-N"), devpth_>>]

\* _can_skip_resize_ufs; out is what subp.subp(['growfs', '-N', devpth]) did
can_skip_resize_ufs(mount_point_, devpth_, out) ==
    IF subp_raises(out)
    THEN IF (Len(out.stderr) >= 1 /\ out.stderr[1] = skip_start)
            /\ (\E i \in DOMAIN out.stderr : out.stderr[i] = skip_contain)
         THEN [kind |-> "return", value |-> TRUE,
               ran |-> <<Arg("growfs"), Arg("-N"), devpth_>>]
         ELSE [kind |-> "raise", value |-> FALSE,
               ran |-> <<Arg("growfs"), Arg("-N"), devpth_>>]
    ELSE [kind |-> "return", value |-> FALSE,
          ran |-> <<Arg("growfs"), Arg("-N"), devpth_>>]

\* RESIZE_FS_PRECHECK_CMDS: the prefixes that have a precheck
RESIZE_FS_PRECHECK_CMDS == { <<"u","f","s">> }

\* can_skip_resize(fs_type, resize_item, devpth); ran is the command run, if any
can_skip_resize(fs_type_, item, devpth_, out) ==
    LET fstype_lc == Lower(fs_type_)
    IN  IF \E i \in RESIZE_FS_PRECHECK_CMDS : StartsWith(fstype_lc, i)
        THEN can_skip_resize_ufs(item, devpth_, out)
        ELSE [kind |-> "return", value |-> FALSE, ran |-> None]

----------------------------------------------------------------------------
(* maybe_get_writable_device_path, lines 144-204 *)

\* what os.stat(path) can do: the file type found, or the errno raised
StatResults == {"BLK", "CHR", "REG", "ENOENT", "EACCES"}

\* os.path.exists(path): os.stat succeeded
path_exists(st, p) == st[p] \in {"BLK", "CHR", "REG"}

\* the paths the function can look at for a given devpath and cmdline answer
StatPaths(devpath, cmdline) ==
    {DevRoot, devpath, DevPrefixed(LStripSlash(devpath))}
    \cup (IF cmdline = None THEN {}
          ELSE {cmdline, DevPrefixed(LStripSlash(cmdline))})

\* the host as one call sees it: util.is_container(), the answer of
\* util.rootdev_from_cmdline(util.get_cmdline()) and os.stat on each path
HostEnvs(devpath, cmdlines) ==
    UNION { [container : BOOLEAN, cmdline : {c},
             st : [StatPaths(devpath, c) -> StatResults]] : c \in cmdlines }

\* mutant: a missing device outside a container is raised, not skipped
maybe_get_writable_device_path_enoent_raises(devpath, env) ==
    LET container == env.container
        viaCmdline == devpath = DevRoot /\ ~path_exists(env.st, DevRoot)
                      /\ ~container
        d1 == IF viaCmdline THEN env.cmdline ELSE devpath
    IN  IF viaCmdline /\ env.cmdline = None
        THEN [kind |-> "return", path |-> None, stat |-> None]
        ELSE IF d1 = Overlayroot
        THEN [kind |-> "return", path |-> None, stat |-> None]
        ELSE IF PathStartsWithDir(d1, <<"gpt">>)
        THEN [kind |-> "return", path |-> d1, stat |-> None]
        ELSE LET d2 == IF ~PathStartsWithDir(d1, <<"", "dev">>)
                          /\ ~path_exists(env.st, d1)
                       THEN DevPrefixed(LStripSlash(d1)) ELSE d1
                 statret == env.st[d2]
             IN  IF container /\ statret = "ENOENT"
                 THEN [kind |-> "return", path |-> None, stat |-> d2]
                 ELSE IF statret \in {"ENOENT", "EACCES"}
                 THEN [kind |-> "raise", path |-> None, stat |-> d2]
                 ELSE IF statret \notin {"BLK", "CHR"}
                 THEN [kind |-> "return", path |-> None, stat |-> d2]
                 ELSE [kind |-> "return", path |-> d2, stat |-> d2]

\* maybe_get_writable_device_path(devpath, info, log): kind is how the call
\* ended, path what it returned, stat the path os.stat (line 184) was called on
maybe_get_writable_device_path(devpath, env) ==
    LET container == env.container
        viaCmdline == devpath = DevRoot /\ ~path_exists(env.st, DevRoot)
                      /\ ~container
        d1 == IF viaCmdline THEN env.cmdline ELSE devpath
    IN  IF viaCmdline /\ env.cmdline = None
        THEN [kind |-> "return", path |-> None, stat |-> None]
        ELSE IF d1 = Overlayroot
        THEN [kind |-> "return", path |-> None, stat |-> None]
        ELSE IF PathStartsWithDir(d1, <<"gpt">>)
        THEN [kind |-> "return", path |-> d1, stat |-> None]
        ELSE LET d2 == IF ~PathStartsWithDir(d1, <<"", "dev">>)
                          /\ ~path_exists(env.st, d1)
                       THEN DevPrefixed(LStripSlash(d1)) ELSE d1
                 statret == env.st[d2]
             IN  IF statret = "ENOENT"
                 THEN [kind |-> "return", path |-> None, stat |-> d2]
                 ELSE IF statret = "EACCES"
                 THEN [kind |-> "raise", path |-> None, stat |-> d2]
                 ELSE IF statret \notin {"BLK", "CHR"}
                 THEN [kind |-> "return", path |-> None, stat |-> d2]
                 ELSE [kind |-> "return", path |-> d2, stat |-> d2]

----------------------------------------------------------------------------
(* The inputs explored *)

\* values of resizefs_enabled / resize_rootfs / args[0], as strings
EnabledValues == {"True", "False", NOBLOCK}

\* configured resize targets
Targets == {RootDir, DevVda1}

TargetLists == UNION { [1..n -> Targets] : n \in 0..MaxTargets }

\* the cloud-config: any subset of the three keys handle reads
Cfgs ==
    { e @@ r @@ l :
        e \in {<<>>} \cup { ("resizefs_enabled" :> v) : v \in EnabledValues },
        r \in {<<>>} \cup { ("resize_rootfs" :> v) : v \in EnabledValues },
        l \in {<<>>} \cup { ("resizefs_list" :> t) : t \in TargetLists } }

ArgLists == {<<>>} \cup { <<v>> : v \in EnabledValues }

FsTypes ==
    { <<"e","x","t","4">>, <<"E","x","t","3">>, <<"e","x","t","2">>,
      <<"x","f","s">>, <<"X","F","S">>,
      <<"u","f","s">>, <<"U","f","s">>,
      <<"z","f","s">>, <<"Z","F","S">>,
      <<"b","t","r","f","s">>, <<"B","t","r","F","S">>,
      <<"n","t","f","s">>, <<"e","x">> }

zfs == <<"z","f","s">>

\* device paths the mount table reports: a device, or for the zfs kind a
\* dataset
MountDevs(f) ==
    IF StartsWith(Lower(f), zfs) THEN {TankData} ELSE {DevVda1, Da0p3}

MountPoints == {RootDir, MntData}

\* what util.get_mount_info can return besides None
MountInfos ==
    UNION { { <<d, f, m>> : d \in MountDevs(f), m \in MountPoints } :
            f \in FsTypes }

\* what util.get_device_info_from_zpool can return besides None
ZpoolDevs == {DevSdb, GptLabel}

\* what util.rootdev_from_cmdline can return
Cmdlines == {None, DevVda1}

\* every outcome maybe_get_writable_device_path can have on a devpath that
\* handle passes to it, over all hosts
ValidatorOutcomes ==
    [ d \in {r[1] : r \in MountInfos} \cup ZpoolDevs |->
        { maybe_get_writable_device_path(d, e) : e \in HostEnvs(d, Cmdlines) } ]

----------------------------------------------------------------------------
(* Collaborators in cloudinit.util *)

\* util.get_cfg_option_str / util.get_cfg_option_list
get_cfg_option(cfg, key, default) ==
    IF key \in DOMAIN cfg THEN cfg[key] ELSE default

\* truth value of an option string; "None" stands for Python's None
Truthy(v) == v \notin {"None", ""}

\* util.translate_bool(val, addons=[NOBLOCK])
translate_bool(val) == val \in {"True", NOBLOCK}

\* util.fork_cb: the child runs the callback in a process of its own and
\* exits; the parent returns at once
fork_cb(kids, i) == kids @@ (i :> "running")

----------------------------------------------------------------------------
(* handle, lines 207-297, and do_resize, lines 300-305 *)

Init ==
    /\ pc = "start"
    /\ resize_enabled = "unset"
    /\ resize_what = <<>>
    /\ idx = 0
    /\ resize_item = None
    /\ result = None
    /\ devpth = None
    /\ fs_type = None
    /\ mount_point = None
    /\ resizer = "None"
    /\ resize_cmd = None
    /\ dry = None
    /\ calls = <<>>
    /\ fg = "idle"
    /\ children = <<>>
    /\ raised = "None"
    /\ logged = "None"
    /\ vq = None
    /\ vr = None

Call(op, outcome) == Append(calls, <<op, idx, outcome>>)

\* lines 208-229
Start ==
    /\ pc = "start"
    /\ \E args \in ArgLists, cfg \in Cfgs :
         LET enabled ==
               IF Len(args) # 0 THEN args[1]
               ELSE IF Truthy(get_cfg_option(cfg, "resize_rootfs", "None"))
                    THEN get_cfg_option(cfg, "resize_rootfs", "None")
                    ELSE get_cfg_option(cfg, "resizefs_enabled", "True")
         IN  /\ resize_enabled' = enabled
             /\ IF ~translate_bool(enabled)
                THEN /\ pc' = "returned"
                     /\ logged' = "Skipping module, resizing disabled"
                     /\ UNCHANGED resize_what
                ELSE /\ pc' = "for"
                     /\ resize_what' =
                          get_cfg_option(cfg, "resizefs_list", <<RootDir>>)
                     /\ UNCHANGED logged
    /\ UNCHANGED <<idx, resize_item, result, devpth, fs_type, mount_point,
                   resizer, resize_cmd, dry, calls, fg, children,
                   raised, vq, vr>>

\* line 232: the next item of resize_what, or the end of the loop.  The
\* locals of the iteration before are all assigned again before they are
\* read, so they are cleared here.
ForNext ==
    /\ pc = "for"
    /\ IF idx + 1 <= Len(resize_what)
       THEN /\ idx' = idx + 1
            /\ resize_item' = resize_what[idx + 1]
            /\ pc' = "get_mount_info"
       ELSE /\ pc' = "done"
            /\ UNCHANGED <<idx, resize_item>>
    /\ result' = None /\ devpth' = None /\ fs_type' = None
    /\ mount_point' = None /\ resizer' = "None" /\ resize_cmd' = None
    /\ dry' = None
    /\ UNCHANGED <<resize_enabled, resize_what, calls, fg, children, raised,
                   logged, vq, vr>>

\* mutant: a target without mount info is skipped and the loop goes on
GetMountInfo_continues ==
    /\ pc = "get_mount_info"
    /\ \E r \in {None} \cup MountInfos :
         /\ result' = r
         /\ calls' = Call("get_mount_info", IF r = None THEN "None" ELSE "ok")
         /\ IF r = None
            THEN /\ logged' = "Could not determine filesystem type"
                 /\ pc' = "for"
                 /\ UNCHANGED <<devpth, fs_type, mount_point>>
            ELSE /\ devpth' = r[1] /\ fs_type' = r[2] /\ mount_point' = r[3]
                 /\ pc' = IF r[2] = zfs THEN "zpool" ELSE "validate"
                 /\ UNCHANGED logged
    /\ UNCHANGED <<resize_enabled, resize_what, idx, resize_item, resizer,
                   resize_cmd, dry, fg, children, raised, vq, vr>>

\* lines 234-247: the mount lookup, and the test for zfs that decides whether
\* the zpool lookup is made
GetMountInfo ==
    /\ pc = "get_mount_info"
    /\ \E r \in {None} \cup MountInfos :
         /\ result' = r
         /\ calls' = Call("get_mount_info", IF r = None THEN "None" ELSE "ok")
         /\ IF r = None
            THEN /\ logged' = "Could not determine filesystem type"
                 /\ pc' = "returned"
                 /\ UNCHANGED <<devpth, fs_type, mount_point>>
            ELSE /\ devpth' = r[1] /\ fs_type' = r[2] /\ mount_point' = r[3]
                 /\ pc' = IF r[2] = zfs THEN "zpool" ELSE "validate"
                 /\ UNCHANGED logged
    /\ UNCHANGED <<resize_enabled, resize_what, idx, resize_item, resizer,
                   resize_cmd, dry, fg, children, raised, vq, vr>>

\* lines 248-252
ZpoolLookup ==
    /\ pc = "zpool"
    /\ LET zpool == FirstSegment(devpth)
       IN  \E z \in {None} \cup ZpoolDevs :
             /\ calls' = Call("get_device_info_from_zpool",
                               IF z = None THEN "None" ELSE "ok")
             /\ devpth' = z
             /\ IF z = None
                THEN /\ pc' = "returned"
                     /\ UNCHANGED resize_item
                ELSE /\ resize_item' = zpool
                     /\ pc' = "validate"
    /\ UNCHANGED <<resize_enabled, resize_what, idx, result, fs_type,
                   mount_point, resizer, resize_cmd, dry, fg,
                   children, raised, logged, vq, vr>>

\* lines 254-260
Validate ==
    /\ pc = "validate"
    /\ \E o \in ValidatorOutcomes[devpth] :
         /\ calls' = Call("maybe_get_writable_device_path",
                           IF o.kind = "raise" THEN "raise"
                           ELSE IF o.path = None THEN "None" ELSE "ok")
         /\ IF o.kind = "raise"
            THEN /\ raised' = "OSError"
                 /\ pc' = "raised"
                 /\ UNCHANGED <<devpth, logged>>
            ELSE /\ devpth' = o.path
                 /\ UNCHANGED raised
                 /\ IF o.path = None
                    THEN /\ pc' = "returned"
                         /\ logged' = "cannot resize"
                    ELSE /\ pc' = "can_skip_resize"
                         /\ UNCHANGED logged
    /\ UNCHANGED <<resize_enabled, resize_what, idx, resize_item, result,
                   fs_type, mount_point, resizer, resize_cmd, dry,
                   fg, children, vq, vr>>

\* mutant: the verdict of the precheck is not acted on
Precheck_verdict_ignored ==
    /\ pc = "can_skip_resize"
    /\ \E out \in SubpOutcomes :
         LET r == can_skip_resize(fs_type, resize_item, devpth, out)
             verdict == IF r.kind = "raise" THEN "raise"
                        ELSE IF r.value THEN "True" ELSE "False"
         IN  /\ resizer' = "None"
             /\ calls' = Call("can_skip_resize", verdict)
             /\ dry' = IF r.ran = None THEN None
                       ELSE <<r.ran, out.exit_code, out.stderr>>
             /\ IF r.kind = "raise"
                THEN /\ raised' = "ProcessExecutionError"
                     /\ pc' = "raised"
                     /\ UNCHANGED logged
                ELSE /\ UNCHANGED raised
                     /\ pc' = "dispatch"
                     /\ UNCHANGED logged
    /\ UNCHANGED <<resize_enabled, resize_what, idx, resize_item, result,
                   devpth, fs_type, mount_point, resize_cmd, fg,
                   children, vq, vr>>

\* lines 262-266
Precheck ==
    /\ pc = "can_skip_resize"
    /\ \E out \in SubpOutcomes :
         LET r == can_skip_resize(fs_type, resize_item, devpth, out)
             verdict == IF r.kind = "raise" THEN "raise"
                        ELSE IF r.value THEN "True" ELSE "False"
         IN  /\ resizer' = "None"
             /\ calls' = Call("can_skip_resize", verdict)
             /\ dry' = IF r.ran = None THEN None
                       ELSE <<r.ran, out.exit_code, out.stderr>>
             /\ IF r.kind = "raise"
                THEN /\ raised' = "ProcessExecutionError"
                     /\ pc' = "raised"
                     /\ UNCHANGED logged
                ELSE /\ UNCHANGED raised
                     /\ IF r.value
                        THEN /\ logged' = "Skip resize filesystem type"
                             /\ pc' = "returned"
                        ELSE /\ pc' = "dispatch"
                             /\ UNCHANGED logged
    /\ UNCHANGED <<resize_enabled, resize_what, idx, resize_item, result,
                   devpth, fs_type, mount_point, resize_cmd, fg,
                   children, vq, vr>>

\* lines 268-281
Dispatch ==
    /\ pc = "dispatch"
    /\ resizer' = select_resizer(fs_type)
    /\ IF resizer' = "None"
       THEN /\ logged' = "Not resizing unknown filesystem type"
            /\ pc' = "returned"
            /\ UNCHANGED <<resize_cmd, calls>>
       ELSE /\ \E env \in BOOLEAN \X BOOLEAN :
                 resize_cmd' =
                     call_resizer(resizer', resize_item, devpth, env)
            /\ calls' = Call("resizer", "ok")
            /\ logged' = "Resizing using"
            /\ pc' = "execute"
    /\ UNCHANGED <<resize_enabled, resize_what, idx, resize_item, result,
                   devpth, fs_type, mount_point, dry, fg, children, raised,
                   vq, vr>>

\* mutant: the non-blocking mode runs the command as the blocking mode does
Execute_never_forks ==
    /\ pc = "execute"
    /\ fg' = "running"
    /\ calls' = Call("do_resize", "started")
    /\ pc' = "do_resize"
    /\ UNCHANGED <<children, logged>>
    /\ UNCHANGED <<resize_enabled, resize_what, idx, resize_item, result,
                   devpth, fs_type, mount_point, resizer, resize_cmd,
                   dry, raised, vq, vr>>

\* lines 283-297: fork a child for the command and go on, or run it here
Execute ==
    /\ pc = "execute"
    /\ IF resize_enabled = NOBLOCK
       THEN /\ children' = fork_cb(children, idx)
            /\ calls' = Call("fork_cb", "ok")
            /\ logged' = "Resizing (via forking)"
            /\ pc' = "for"
            /\ UNCHANGED fg
       ELSE /\ fg' = "running"
            /\ calls' = Call("do_resize", "started")
            /\ pc' = "do_resize"
            /\ UNCHANGED <<children, logged>>
    /\ UNCHANGED <<resize_enabled, resize_what, idx, resize_item, result,
                   devpth, fs_type, mount_point, resizer, resize_cmd,
                   dry, raised, vq, vr>>

\* exit codes of a resize command
ExitCodes == {0, 1}

\* mutant: do_resize logs the failure and does not re-raise it
DoResize_swallows ==
    /\ pc = "do_resize"
    /\ fg = "running"
    /\ \E code \in ExitCodes :
         /\ fg' = "idle"
         /\ calls' = Call("subp", IF subp_raises([exit_code |-> code,
                                                  stderr |-> <<>>])
                                  THEN "raise" ELSE "ok")
         /\ IF subp_raises([exit_code |-> code, stderr |-> <<>>])
            THEN /\ logged' = "Failed to resize filesystem"
                 /\ pc' = "for"
                 /\ UNCHANGED raised
            ELSE /\ logged' = "Resized"
                 /\ pc' = "for"
                 /\ UNCHANGED raised
    /\ UNCHANGED <<resize_enabled, resize_what, idx, resize_item, result,
                   devpth, fs_type, mount_point, resizer, resize_cmd,
                   dry, children, vq, vr>>

\* lines 290-291 and 300-305: the synchronous command ends; do_resize logs
\* and re-raises its failure, which leaves handle
DoResize ==
    /\ pc = "do_resize"
    /\ fg = "running"
    /\ \E code \in ExitCodes :
         /\ fg' = "idle"
         /\ calls' = Call("subp", IF subp_raises([exit_code |-> code,
                                                  stderr |-> <<>>])
                                  THEN "raise" ELSE "ok")
         /\ IF subp_raises([exit_code |-> code, stderr |-> <<>>])
            THEN /\ logged' = "Failed to resize filesystem"
                 /\ raised' = "ProcessExecutionError"
                 /\ pc' = "raised"
            ELSE /\ logged' = "Resized"
                 /\ pc' = "for"
                 /\ UNCHANGED raised
    /\ UNCHANGED <<resize_enabled, resize_what, idx, resize_item, result,
                   devpth, fs_type, mount_point, resizer, resize_cmd,
                   dry, children, vq, vr>>

\* lines 300-305 in a forked child: the command ends, the child exits with
\* 0, or with 1 after do_resize logged and re-raised the failure
ChildDoResize(i) ==
    /\ children[i] = "running"
    /\ \E code \in ExitCodes :
         children' = [children EXCEPT ![i] =
             IF subp_raises([exit_code |-> code, stderr |-> <<>>])
             THEN "exit 1" ELSE "exit 0"]
    /\ UNCHANGED <<pc, resize_enabled, resize_what, idx, resize_item, result,
                   devpth, fs_type, mount_point, resizer, resize_cmd,
                   dry, calls, fg, raised, logged, vq, vr>>

\* the steps of handle's own thread
HandleStep ==
    \/ Start
    \/ ForNext
    \/ GetMountInfo
    \/ ZpoolLookup
    \/ Validate
    \/ Precheck
    \/ Dispatch
    \/ Execute
    \/ DoResize

Next ==
    \/ HandleStep
    \/ \E i \in DOMAIN children : ChildDoResize(i)

Spec == Init /\ [][Next]_vars

\* handle's own steps that do not wait for a resize command: the fairness the
\* single controlling thread gives.  Nothing makes an external resize command
\* end, so DoResize and ChildDoResize are not among them.
HandleOwnStep ==
    \/ Start
    \/ ForNext
    \/ GetMountInfo
    \/ ZpoolLookup
    \/ Validate
    \/ Precheck
    \/ Dispatch
    \/ Execute

LiveSpec == Init /\ [][Next]_vars /\ WF_vars(HandleOwnStep)

----------------------------------------------------------------------------
(* maybe_get_writable_device_path on its own: every input on every host *)

ValidatorInputs ==
    {DevRoot, Overlayroot, GptLabel, Da0p3, DevVda1, TankData, RootDir,
     <<"", "", "da0p3">>}

ValidatorCall ==
    /\ vq = None
    /\ \E d \in ValidatorInputs :
         \E e \in HostEnvs(d, Cmdlines) :
           /\ vq' = <<d, e>>
           /\ vr' = maybe_get_writable_device_path(d, e)
    /\ UNCHANGED hvars

ValidatorSpec == Init /\ [][ValidatorCall]_vars

----------------------------------------------------------------------------
(* Reading the call log *)

Terminal == {"done", "returned", "raised"}

LastCall == calls[Len(calls)]

\* the operations, with outcomes, handle called for the target at position i
OpsAt(i) ==
    LET At(c) == c[2] = i
        sel == SelectSeq(calls, At)
    IN  [k \in 1..Len(sel) |-> <<sel[k][1], sel[k][3]>>]

HasCall(op, i) == \E k \in DOMAIN calls : calls[k][1] = op /\ calls[k][2] = i

ExecOps == {"fork_cb", "do_resize"}

\* a resize command was executed or spawned for the target at position i
Executed(i) == \E k \in DOMAIN calls : calls[k][1] \in ExecOps /\ calls[k][2] = i

----------------------------------------------------------------------------
(* C1 *)

AbortOps == {"get_mount_info", "get_device_info_from_zpool",
             "maybe_get_writable_device_path"}

\* C1: when the mount lookup, the zpool device lookup (made for type zfs only)
\* or the device path validation of the target at position i returns nothing,
\* handle has returned: that call is the last call handle ever makes, so
\* nothing more is looked up, validated, prechecked, built, executed or
\* spawned, for target i or for any target after it.
C1_AbortStopsIteration ==
    \A k \in DOMAIN calls :
        (calls[k][1] \in AbortOps /\ calls[k][3] = "None")
        => /\ k = Len(calls)
           /\ pc = "returned"
           /\ calls[k][2] = idx
           /\ ~Executed(idx)
           /\ fg = "idle"
           /\ raised = "None"

\* the first of two targets has a device path that is no block device
C1_Witness ==
    /\ pc = "returned"
    /\ Len(resize_what) = 2 /\ idx = 1
    /\ calls # <<>>
    /\ LastCall = <<"maybe_get_writable_device_path", 1, "None">>

\* the zpool lookup of the first of two targets finds no device
C1_WitnessZpool ==
    /\ pc = "returned"
    /\ Len(resize_what) = 2 /\ idx = 1
    /\ calls # <<>>
    /\ LastCall = <<"get_device_info_from_zpool", 1, "None">>

----------------------------------------------------------------------------
(* C2 *)

\* the calls that lead to a command, in order, without and with the zpool
\* lookup
PathsToCommand ==
    { << <<"get_mount_info", "ok">> >> \o z
        \o << <<"maybe_get_writable_device_path", "ok">>,
              <<"can_skip_resize", "False">>, <<"resizer", "ok">> >> :
        z \in { <<>>, << <<"get_device_info_from_zpool", "ok">> >> } }

\* C2: a command is executed or spawned for a target only when resizing is
\* enabled and the calls made for that target before it are, in this order,
\* a mount lookup that succeeded, for type zfs (fs_type == 'zfs', line 247) a
\* zpool lookup that succeeded, a validation that returned a path, a precheck
\* that returned false and one single build of the command; and with resizing
\* disabled handle calls nothing at all.
C2_CommandOnlyAfterAllSteps ==
    /\ \A i \in 1..idx :
         Executed(i) =>
           /\ translate_bool(resize_enabled)
           /\ \E p \in PathsToCommand, e \in ExecOps :
                LET ops == OpsAt(i)
                IN  /\ Len(ops) >= Len(p) + 1
                    /\ SubSeq(ops, 1, Len(p) + 1) = p \o << <<e, ops[Len(p) + 1][2]>> >>
           /\ Cardinality({k \in DOMAIN calls :
                             calls[k][1] = "resizer" /\ calls[k][2] = i}) = 1
           /\ Cardinality({k \in DOMAIN calls :
                             calls[k][1] \in ExecOps /\ calls[k][2] = i}) = 1
           /\ (i = idx /\ pc # "done") =>
                /\ HasCall("get_device_info_from_zpool", i) <=> fs_type = zfs
                /\ resize_cmd # None
    /\ ~translate_bool(resize_enabled) =>
         /\ calls = <<>>
         /\ children = <<>>
         /\ fg = "idle"
         /\ pc \in {"start", "returned"}

\* a zfs target reached its command in non-blocking mode
C2_Witness ==
    /\ resize_enabled = NOBLOCK
    /\ idx = 1
    /\ fs_type = zfs
    /\ OpsAt(1) = << <<"get_mount_info", "ok">>,
                     <<"get_device_info_from_zpool", "ok">>,
                     <<"maybe_get_writable_device_path", "ok">>,
                     <<"can_skip_resize", "False">>,
                     <<"resizer", "ok">>,
                     <<"fork_cb", "ok">> >>

\* handle returned on a disabled configuration
C2_WitnessDisabled ==
    /\ pc = "returned"
    /\ resize_enabled = "False"
    /\ logged = "Skipping module, resizing disabled"

----------------------------------------------------------------------------
(* C3 *)

\* C3, what never happens in non-blocking mode: handle does not run or wait
\* for a resize command itself, no failure of a resize command is logged by
\* or raised out of handle, and every command handle got to is a child's.
C3_NoblockState ==
    resize_enabled = NOBLOCK =>
        /\ fg = "idle"
        /\ pc # "do_resize"
        /\ logged # "Failed to resize filesystem"
        /\ ~(\E k \in DOMAIN calls : calls[k][1] \in {"do_resize", "subp"})
        /\ DOMAIN children = {i \in 1..idx : HasCall("fork_cb", i)}
        /\ raised # "None" =>
             LastCall[1] \in {"maybe_get_writable_device_path",
                              "can_skip_resize"}

\* C3, the spawn: in non-blocking mode the step that leaves line 283 adds one
\* child for the current target, still running, touches no other child, and
\* leaves handle at the head of the loop with nothing raised.
C3_NoblockSpawn ==
    (resize_enabled = NOBLOCK /\ pc = "execute" /\ pc' # "execute") =>
        /\ pc' = "for"
        /\ idx \notin DOMAIN children
        /\ children' = children @@ (idx :> "running")
        /\ raised' = "None"

\* C3: in non-blocking mode handle spawns one child per target when the target
\* is reached and returns to the loop without waiting; whatever the children
\* do, also when none of them ever ends, handle itself always comes to an end,
\* and no resize failure reaches it.
C3_NoblockNeverWaits ==
    /\ [] C3_NoblockState
    /\ [][C3_NoblockSpawn]_vars
    /\ (resize_enabled = NOBLOCK ~> pc \in Terminal)

\* handle completed a list of two targets while the child of the first is
\* still running and the child of the second has failed
C3_Witness ==
    /\ resize_enabled = NOBLOCK
    /\ pc = "done"
    /\ DOMAIN children = {1, 2}
    /\ children[1] = "running"
    /\ children[2] = "exit 1"

\* the resize of the first target runs while handle works on the second
C3_WitnessConcurrent ==
    /\ resize_enabled = NOBLOCK
    /\ pc = "can_skip_resize" /\ idx = 2
    /\ DOMAIN children = {1}
    /\ children[1] = "running"

----------------------------------------------------------------------------
(* C4 *)

\* C4: in blocking mode the command of a target runs in handle's own thread:
\* while it runs handle does nothing else, its end is the very next thing in
\* the call log, so the commands run one at a time in list order; and a
\* command that fails is logged by do_resize and raised out of handle, after
\* which handle calls nothing more.
C4_BlockingInOrderAndFatal ==
    /\ fg = "running" =>
         /\ pc = "do_resize"
         /\ resize_enabled # NOBLOCK
         /\ LastCall = <<"do_resize", idx, "started">>
    /\ \A k \in DOMAIN calls :
         /\ calls[k][1] = "do_resize" =>
              /\ \A j \in 1..(k - 1) : calls[j][2] <= calls[k][2]
              /\ \A i \in 1..(calls[k][2] - 1) : HasCall("subp", i)
              /\ IF k = Len(calls)
                 THEN fg = "running"
                 ELSE calls[k + 1][1] = "subp" /\ calls[k + 1][2] = calls[k][2]
         /\ (calls[k][1] = "subp" /\ calls[k][3] = "raise") =>
              /\ k = Len(calls)
              /\ pc = "raised"
              /\ raised = "ProcessExecutionError"
              /\ logged = "Failed to resize filesystem"
              /\ calls[k][2] = idx
         /\ (calls[k][1] = "subp" /\ calls[k][3] = "ok" /\ k = Len(calls)) =>
              /\ pc \in {"for", "done", "get_mount_info"}
              /\ raised = "None"

\* the command of the first of two targets failed
C4_Witness ==
    /\ resize_enabled = "True"
    /\ Len(resize_what) = 2
    /\ calls # <<>>
    /\ LastCall = <<"subp", 1, "raise">>
    /\ pc = "raised"

\* the command of the second target runs after the first one ended
C4_WitnessOrder ==
    /\ resize_enabled = "True"
    /\ fg = "running" /\ idx = 2
    /\ HasCall("subp", 1)

----------------------------------------------------------------------------
(* C5 *)

IsZfsKind(t) == t # None /\ StartsWith(Lower(t), zfs)

\* C5: for every target whose type is of the zfs kind (prefix 'zfs', any
\* case) the command built is zpool online -e <pool> <device>, the pool being
\* the first segment of the dataset path the mount table gave and the device
\* the validated answer of the zpool lookup made for that pool.
C5_ZfsCommand ==
    (pc = "execute" /\ IsZfsKind(fs_type)) =>
        /\ HasCall("get_device_info_from_zpool", idx)
        /\ resize_cmd = <<Arg("zpool"), Arg("online"), Arg("-e"),
                          FirstSegment(result[1]), devpth>>
        /\ devpth # result[1]

\* the same for the type string 'zfs' itself, which line 247 tests for
C5_ZfsCommandExactType ==
    (pc = "execute" /\ fs_type = zfs) =>
        /\ HasCall("get_device_info_from_zpool", idx)
        /\ resize_cmd = <<Arg("zpool"), Arg("online"), Arg("-e"),
                          FirstSegment(result[1]), devpth>>
        /\ devpth # result[1]

----------------------------------------------------------------------------
(* C6 *)

\* C6: the path argument of the xfs, ufs and btrfs commands is the mount
\* point the mount lookup resolved for the target (for btrfs that mount point
\* or its .snapshots), whatever form the configured target has.
C6_MountPointArgument ==
    pc = "execute" =>
        /\ resizer = "_resize_xfs" =>
             resize_cmd = <<Arg("xfs_growfs"), mount_point>>
        /\ resizer = "_resize_ufs" =>
             resize_cmd = <<Arg("growfs"), Arg("-y"), mount_point>>
        /\ resizer = "_resize_btrfs" =>
             /\ Len(resize_cmd) = 5
             /\ resize_cmd[5] \in {mount_point, mount_point \o <<".snapshots">>}

\* what the code passes: the configured target string
C6_TargetArgument ==
    pc = "execute" =>
        /\ resizer = "_resize_xfs" =>
             resize_cmd = <<Arg("xfs_growfs"), resize_what[idx]>>
        /\ resizer = "_resize_ufs" =>
             resize_cmd = <<Arg("growfs"), Arg("-y"), resize_what[idx]>>
        /\ resizer = "_resize_btrfs" =>
             /\ Len(resize_cmd) = 5
             /\ resize_cmd[5] \in {resize_what[idx],
                                   resize_what[idx] \o <<".snapshots">>}

----------------------------------------------------------------------------
(* C7 *)

\* the prefixes of the list that the lowercase form of a type starts with
MatchingPrefixes(t) ==
    {i \in DOMAIN RESIZE_FS_PREFIXES_CMDS :
        StartsWith(Lower(t), RESIZE_FS_PREFIXES_CMDS[i][1])}

ExtTypes == { <<"e","x","t","2">>, <<"e","x","t","3">>, <<"e","x","t","4">> }

\* the dispatch of the current iteration has been made
Dispatched ==
    /\ calls # <<>>
    /\ \/ pc \in {"execute", "do_resize"}
       \/ pc \in Terminal \cup {"for"} /\ LastCall[2] = idx
                                       /\ LastCall[1] \in ExecOps \cup {"subp"}
       \/ pc = "returned" /\ logged = "Not resizing unknown filesystem type"

\* C7: the builder handle selects is the one of the single prefix of the list
\* btrfs, ext, xfs, ufs, zfs that the lowercase form of the type starts with,
\* in whatever case the type is spelled; no prefix of the list starts with
\* another, so no type matches two prefixes and the order decides nothing;
\* ext2, ext3 and ext4 give resize2fs <devicePath>; and a type matching no
\* prefix gives a warning and a return, with no command and nothing raised.
C7_PrefixDispatch ==
    /\ \A i, j \in DOMAIN RESIZE_FS_PREFIXES_CMDS :
         StartsWith(RESIZE_FS_PREFIXES_CMDS[i][1],
                    RESIZE_FS_PREFIXES_CMDS[j][1]) => i = j
    /\ fs_type # None => Cardinality(MatchingPrefixes(fs_type)) <= 1
    /\ (Dispatched /\ fs_type # None) =>
         IF MatchingPrefixes(fs_type) = {}
         THEN /\ pc = "returned"
              /\ logged = "Not resizing unknown filesystem type"
              /\ resizer = "None"
              /\ resize_cmd = None
              /\ raised = "None"
              /\ ~Executed(idx)
         ELSE /\ \E i \in MatchingPrefixes(fs_type) :
                   resizer = RESIZE_FS_PREFIXES_CMDS[i][2]
              /\ logged # "Not resizing unknown filesystem type"
              /\ resize_cmd # None
              /\ Lower(fs_type) \in ExtTypes =>
                   resize_cmd = <<Arg("resize2fs"), devpth>>
    /\ (pc = "returned" /\ logged = "Not resizing unknown filesystem type")
         => fs_type # None /\ MatchingPrefixes(fs_type) = {}

\* a mixed-case ext3 was dispatched to resize2fs on the validated device
C7_Witness ==
    /\ pc = "execute"
    /\ fs_type = <<"E","x","t","3">>
    /\ resizer = "_resize_ext"
    /\ resize_cmd = <<Arg("resize2fs"), devpth>>

\* a type matching no prefix was turned away
C7_WitnessUnknown ==
    /\ pc = "returned"
    /\ fs_type = <<"n","t","f","s">>
    /\ logged = "Not resizing unknown filesystem type"

----------------------------------------------------------------------------
(* C8 *)

\* C8: maybe_get_writable_device_path returns a path only when that path
\* starts with gpt/, and then os.stat was not called, or when os.stat reports
\* it as a block or character special file; it returns None for overlayroot,
\* for an absent /dev/root outside a container when the kernel command line
\* gives no root device, for a path whose stat fails with ENOENT, in a
\* container or not, and for an entry that is neither block nor character
\* special; and it raises when os.stat fails with another errno.
C8_WritableDevicePath ==
    vq # None =>
        LET devpath == vq[1]
            env == vq[2]
        IN  /\ (vr.kind = "return" /\ vr.path # None) =>
                 \/ PathStartsWithDir(vr.path, <<"gpt">>) /\ vr.stat = None
                 \/ /\ vr.stat = vr.path
                    /\ env.st[vr.path] \in {"BLK", "CHR"}
            /\ devpath = Overlayroot =>
                 vr = [kind |-> "return", path |-> None, stat |-> None]
            /\ (devpath = DevRoot /\ ~path_exists(env.st, DevRoot)
                  /\ ~env.container /\ env.cmdline = None) =>
                 vr = [kind |-> "return", path |-> None, stat |-> None]
            /\ vr.stat # None =>
                 /\ env.st[vr.stat] = "ENOENT" =>
                      vr.kind = "return" /\ vr.path = None
                 /\ env.st[vr.stat] = "REG" =>
                      vr.kind = "return" /\ vr.path = None
                 /\ env.st[vr.stat] = "EACCES" => vr.kind = "raise"
                 /\ env.st[vr.stat] \in {"BLK", "CHR"} =>
                      vr.kind = "return" /\ vr.path = vr.stat
            /\ vr.kind = "raise" =>
                 vr.stat # None /\ env.st[vr.stat] = "EACCES"
            /\ (devpath # DevRoot /\ devpath # Overlayroot
                  /\ ~PathStartsWithDir(devpath, <<"gpt">>)) =>
                 vr.stat \in {devpath, DevPrefixed(LStripSlash(devpath))}

\* outside a container, da0p3 was not found as given nor as /dev/da0p3
C8_Witness ==
    /\ vq # None
    /\ vq[1] = Da0p3
    /\ ~vq[2].container
    /\ vr = [kind |-> "return", path |-> None,
             stat |-> <<"", "dev", "da0p3">>]
    /\ vq[2].st[<<"", "dev", "da0p3">>] = "ENOENT"

\* /dev/root was resolved through the kernel command line
C8_WitnessCmdline ==
    /\ vq # None
    /\ vq[1] = DevRoot
    /\ vr.kind = "return" /\ vr.path = DevVda1

\* a gpt label was accepted without a stat
C8_WitnessGpt ==
    /\ vq # None
    /\ vq[1] = GptLabel
    /\ vr = [kind |-> "return", path |-> GptLabel, stat |-> None]

----------------------------------------------------------------------------
(* C9 *)

\* the verdict of the precheck made for the target at position i
PrecheckVerdict(i) ==
    LET k == CHOOSE k \in DOMAIN calls :
                 calls[k][1] = "can_skip_resize" /\ calls[k][2] = i
    IN  calls[k][3]

AlreadySized(stderr) ==
    /\ Len(stderr) >= 1 /\ stderr[1] = skip_start
    /\ \E j \in DOMAIN stderr : stderr[j] = skip_contain

\* C9: for a ufs type the precheck runs growfs -N <devicePath> and has three
\* outcomes: False on exit zero; True on a non-zero exit whose stderr starts
\* with 'growfs: requested size' and contains 'is not larger than the current
\* filesystem size'; the execution failure raised out of handle on any other
\* non-zero exit, in blocking and in non-blocking mode alike.  For a type
\* without a precheck it is False and no command is run.
C9_PrecheckOutcomes ==
    (pc # "done" /\ HasCall("can_skip_resize", idx)) =>
        LET verdict == PrecheckVerdict(idx)
        IN  IF StartsWith(Lower(fs_type), <<"u","f","s">>)
            THEN /\ dry # None
                 /\ dry[1] = <<Arg("growfs"), Arg("-N"), devpth>>
                 /\ dry[2] = 0 =>
                      /\ verdict = "False"
                      /\ LastCall[1] = "can_skip_resize" => pc = "dispatch"
                 /\ (dry[2] # 0 /\ AlreadySized(dry[3])) =>
                      /\ verdict = "True"
                      /\ pc = "returned" /\ raised = "None"
                      /\ logged = "Skip resize filesystem type"
                 /\ (dry[2] # 0 /\ ~AlreadySized(dry[3])) =>
                      /\ verdict = "raise"
                      /\ pc = "raised" /\ raised = "ProcessExecutionError"
                      /\ ~Executed(idx)
            ELSE /\ dry = None
                 /\ verdict = "False"

\* in non-blocking mode a dry run failed with another message and the
\* failure left handle
C9_Witness ==
    /\ resize_enabled = NOBLOCK
    /\ pc = "raised"
    /\ raised = "ProcessExecutionError"
    /\ dry # None
    /\ dry[2] = 1
    /\ dry[3] = <<skip_start, "10G">>

\* the dry run reported the filesystem as already sized
C9_WitnessSkip ==
    /\ pc = "returned"
    /\ logged = "Skip resize filesystem type"
    /\ dry # None
    /\ dry[3] = <<skip_start, "10G", skip_contain>>

\* a type without a precheck went on without a dry run
C9_WitnessNoPrecheck ==
    /\ pc = "dispatch"
    /\ fs_type = <<"e","x","t","4">>
    /\ dry = None

----------------------------------------------------------------------------
(* C10 *)

SkipMessages == {"Skip resize filesystem type",
                 "Not resizing unknown filesystem type"}

\* C10: a target skipped as already sized or as of an unsupported type is
\* skipped alone: handle does not end on it while targets remain, the loop
\* goes on to the targets after it.
C10_SkipContinues ==
    (logged \in SkipMessages /\ idx < Len(resize_what)) => pc # "returned"

\* what the code does: either skip is a return out of the loop, the last
\* thing handle does
C10_SkipReturns ==
    logged \in SkipMessages =>
        /\ pc = "returned"
        /\ LastCall = <<"can_skip_resize", idx, PrecheckVerdict(idx)>>
        /\ ~Executed(idx)

====
